---------------------------- MODULE Spec2Model ----------------------------
(***************************************************************************)
(* A model of humanlog's line dispatcher (Scanner) and of its Journal-JSON *)
(* handler (JournalJSONHandler).                                           *)
(*                                                                         *)
(* Byte strings are sequences of one-character strings.  An input line is  *)
(* kept in parsed form (its abstract syntax): whether it carries the       *)
(* "@cee: " prefix, and either the JSON object it spells or the list of    *)
(* whitespace-separated tokens it is made of.                              *)
(***************************************************************************)
EXTENDS Integers, Sequences, FiniteSets, TLC

\* Number of lines the input stream may hold.
MaxLines == 3

-----------------------------------------------------------------------------
\* Byte strings.

\* The byte value of the characters the model uses (ASCII); the escape
\* character, which has no spelling in a string, is the element "ESC".
Code(c) ==
  CASE c = "\n" -> 10 [] c = "ESC" -> 27 [] c = " " -> 32 [] c = "\"" -> 34 [] c = "+" -> 43
    [] c = "-" -> 45 [] c = "." -> 46
    [] c = "0" -> 48 [] c = "1" -> 49 [] c = "2" -> 50 [] c = "3" -> 51
    [] c = "4" -> 52 [] c = "5" -> 53 [] c = "6" -> 54 [] c = "7" -> 55
    [] c = "8" -> 56 [] c = "9" -> 57 [] c = ":" -> 58 [] c = "<" -> 60
    [] c = "=" -> 61 [] c = ">" -> 62 [] c = "@" -> 64
    [] c = "A" -> 65 [] c = "B" -> 66 [] c = "C" -> 67 [] c = "E" -> 69
    [] c = "G" -> 71 [] c = "I" -> 73 [] c = "L" -> 76 [] c = "M" -> 77
    [] c = "O" -> 79 [] c = "P" -> 80 [] c = "R" -> 82 [] c = "S" -> 83
    [] c = "T" -> 84 [] c = "U" -> 85 [] c = "Y" -> 89
    [] c = "[" -> 91 [] c = "]" -> 93 [] c = "_" -> 95
    [] c = "a" -> 97 [] c = "b" -> 98 [] c = "e" -> 101 [] c = "f" -> 102
    [] c = "h" -> 104 [] c = "i" -> 105 [] c = "l" -> 108 [] c = "m" -> 109
    [] c = "n" -> 110 [] c = "o" -> 111 [] c = "p" -> 112 [] c = "r" -> 114
    [] c = "s" -> 115 [] c = "t" -> 116 [] c = "u" -> 117 [] c = "x" -> 120
    [] c = "y" -> 121 [] c = "{" -> 123 [] c = "}" -> 125

\* strings.ToLower on one character.
LowerChar(c) ==
  CASE c = "A" -> "a" [] c = "B" -> "b" [] c = "C" -> "c" [] c = "E" -> "e"
    [] c = "G" -> "g" [] c = "I" -> "i" [] c = "L" -> "l" [] c = "M" -> "m"
    [] c = "O" -> "o" [] c = "P" -> "p" [] c = "R" -> "r" [] c = "S" -> "s"
    [] c = "T" -> "t" [] c = "U" -> "u" [] c = "Y" -> "y"
    [] OTHER -> c

\* strings.ToLower
ToLower(s) == [i \in 1..Len(s) |-> LowerChar(s[i])]

\* strings.HasPrefix / bytes.HasPrefix
HasPrefix(s, p) == Len(s) >= Len(p) /\ SubSeq(s, 1, Len(p)) = p

\* Go's string comparison s < t: bytewise lexicographic.
RECURSIVE StrLess(_, _)
StrLess(s, t) ==
  IF t = << >> THEN FALSE
  ELSE IF s = << >> THEN TRUE
  ELSE IF Code(Head(s)) # Code(Head(t)) THEN Code(Head(s)) < Code(Head(t))
  ELSE StrLess(Tail(s), Tail(t))

\* strings.Join
RECURSIVE Join(_, _)
Join(ss, sep) ==
  IF ss = << >> THEN << >>
  ELSE IF Len(ss) = 1 THEN ss[1]
  ELSE ss[1] \o sep \o Join(Tail(ss), sep)

\* The decimal digits of a natural number.
RECURSIVE Digits(_)
Digits(n) ==
  LET d == <<"0", "1", "2", "3", "4", "5", "6", "7", "8", "9">>
  IN  IF n < 10 THEN <<d[n + 1]>> ELSE Digits(n \div 10) \o <<d[(n % 10) + 1]>>

\* fmt.Sprintf("%d", n)
Itoa(n) == IF n < 0 THEN <<"-">> \o Digits(-n) ELSE Digits(n)

\* A map with no entry (a nil map reads the same).
EmptyMap == [k \in {} |-> << >>]

\* m without the entry k (delete(m, k)).
MapDel(m, k) == [x \in (DOMAIN m) \ {k} |-> m[x]]

-----------------------------------------------------------------------------
\* Decoded JSON values (what json.Unmarshal stores in an interface{}).
\* A float64 is kept as the decimal it was decoded from: it is the float64
\* nearest to whole + frac / FracUnit, with 0 <= frac < FracUnit.  For
\* frac = 0, and for a whole part between -2^29 and 2^29, that decimal is
\* the shortest one the float64 prints as and whole is the floor of the
\* float64; the numbers of the model are of these.

\* Fractional parts are counted in units of 1e-7.
FracUnit == 10 * 1000 * 1000

JString(s) == [t |-> "string", s |-> s, whole |-> 0, frac |-> 0, o |-> EmptyMap]

JNumber(w, f) == [t |-> "number", s |-> << >>, whole |-> w, frac |-> f, o |-> EmptyMap]

JBool(b) == [t |-> "bool", s |-> IF b THEN <<"t", "r", "u", "e">> ELSE <<"f", "a", "l", "s", "e">>, whole |-> 0, frac |-> 0, o |-> EmptyMap]

JObject(m) == [t |-> "object", s |-> << >>, whole |-> 0, frac |-> 0, o |-> m]

\* The elements of a set of strings in increasing (bytewise) order.
RECURSIVE SortedSeqOf(_)
SortedSeqOf(S) ==
  IF S = {} THEN << >>
  ELSE LET m == CHOOSE x \in S : \A y \in S \ {x} : StrLess(x, y)
       IN  <<m>> \o SortedSeqOf(S \ {m})

\* s without its trailing "0" characters.
RECURSIVE StripTrailingZeros(_)
StripTrailingZeros(s) ==
  IF s # << >> /\ s[Len(s)] = "0" THEN StripTrailingZeros(SubSeq(s, 1, Len(s) - 1)) ELSE s

\* The number of leading "0" characters of s.
RECURSIVE LeadingZeros(_)
LeadingZeros(s) ==
  IF s # << >> /\ Head(s) = "0" THEN 1 + LeadingZeros(Tail(s)) ELSE 0

\* n copies of "0".
Zeros(n) == [i \in 1..n |-> "0"]

\* frac as the FracUnit's seven decimal places.
FracDigits(f) == LET d == Digits(f) IN Zeros(7 - Len(d)) \o d

\* strconv's %e and %f layouts of the decimal digits ds with the decimal
\* point after the first dp of them (before them, with -dp zeros between,
\* when dp <= 0).  The shortest 'g' format takes %e when the exponent dp - 1
\* is < -4 or >= 6, with an exponent of at least two digits.
FormatDigits(ds, dp) ==
  LET nd   == Len(ds)
      exp  == dp - 1
      aexp == IF dp - 1 < 0 THEN 1 - dp ELSE dp - 1
  IN  IF exp < -4 \/ exp >= 6
      THEN <<ds[1]>> \o (IF nd > 1 THEN <<".">> \o SubSeq(ds, 2, nd) ELSE << >>)
             \o <<"e", IF exp < 0 THEN "-" ELSE "+">>
             \o (IF aexp < 10 THEN <<"0">> ELSE << >>) \o Digits(aexp)
      ELSE IF dp <= 0 THEN <<"0", ".">> \o Zeros(-dp) \o ds
      ELSE IF nd <= dp THEN ds \o Zeros(dp - nd)
      ELSE SubSeq(ds, 1, dp) \o <<".">> \o SubSeq(ds, dp + 1, nd)

\* The same for a number below one, given the digits fd after its decimal point.
FormatFraction(fd) ==
  IF LeadingZeros(fd) = Len(fd) THEN FormatDigits(<<"0">>, 1)
  ELSE FormatDigits(SubSeq(fd, LeadingZeros(fd) + 1, Len(fd)), -LeadingZeros(fd))

\* strconv's shortest 'g' formatting (fmt's %g and %v) of the non-negative
\* number w + f / FracUnit.
FormatGAbs(w, f) ==
  IF w = 0 THEN FormatFraction(StripTrailingZeros(FracDigits(f)))
  ELSE FormatDigits(StripTrailingZeros(Digits(w) \o FracDigits(f)), Len(Digits(w)))

\* fmt.Sprintf("%g", v) for v = w + f / FracUnit.
FormatG(w, f) ==
  IF w >= 0 THEN FormatGAbs(w, f)
  ELSE IF f = 0 THEN <<"-">> \o FormatGAbs(-w, 0)
  ELSE <<"-">> \o FormatGAbs(-w - 1, FracUnit - f)

\* 2^k modulo 1e6.
RECURSIVE PowTwoMod(_)
PowTwoMod(k) == IF k = 0 THEN 1 ELSE (2 * PowTwoMod(k - 1)) % (1000 * 1000)

\* The e with 2^e <= n < 2^(e+1), for n >= 1.
RECURSIVE Log2(_)
Log2(n) == IF n < 2 THEN 0 ELSE 1 + Log2(n \div 2)

\* The binary exponent of the float64 nearest to w + 1e-6 for an integer
\* w # 0: its absolute value lies in [2^e, 2^(e+1)).
Binade(w) == IF w >= 1 THEN Log2(w) ELSE IF w = -1 THEN -1 ELSE Log2(-w - 1)

\* The float64 nearest to w + 1e-6 (w # 0) lies below it: float64 values of
\* binary exponent e are the multiples of 2^(e-52), and 1e-6 is rounded
\* down to one of them when the fractional part of 2^(52-e) / 1e6 is below
\* one half.
RoundsDown(w) == PowTwoMod(52 - Binade(w)) < 500 * 1000

\* v-math.Floor(v) < 0.000001 on float64: the difference is exact, and the
\* constant is the float64 nearest to 1e-6, which is below 1e-6.  A decimal
\* fraction of less or more than 1e-6 is so as a float64 too; one of 1e-6
\* exactly is below the constant when the float64 of v was rounded down
\* (for w = 0 the fraction is the constant itself).
FractionBelowMicro(w, f) ==
  IF f # FracUnit \div (1000 * 1000) THEN f < FracUnit \div (1000 * 1000)
  ELSE w # 0 /\ RoundsDown(w)

\* int(v): conversion of a float64 to int truncates toward zero.
FloatToInt(w, f) == IF w < 0 /\ f # 0 THEN w + 1 ELSE w

\* fmt.Sprintf("%q", s) for strings of printable ASCII without quotes or
\* backslashes (the only ones the model uses): s between double quotes.
FormatQ(s) == <<"\"">> \o s \o <<"\"">>

\* fmt.Sprintf("%v", v): a string as it is, a float64 as %g, a boolean as
\* true/false, a map as map[k:v k:v] in increasing key order.
RECURSIVE FormatV(_)
FormatMap(o, ks) ==
  <<"m", "a", "p", "[">>
    \o Join([i \in 1..Len(ks) |-> ks[i] \o <<":">> \o FormatV(o[ks[i]])], <<" ">>)
    \o <<"]">>

FormatV(v) ==
  CASE v.t = "string" -> v.s
    [] v.t = "number" -> FormatG(v.whole, v.frac)
    [] v.t = "bool"   -> v.s
    [] v.t = "object" -> FormatMap(v.o, SortedSeqOf(DOMAIN v.o))

-----------------------------------------------------------------------------
\* Input lines.

\* "@cee: ", the syslog prefix Scanner removes.
CeePrefix == <<"@", "c", "e", "e", ":", " ">>

\* The key the Journal-JSON handler looks for, and the same between the
\* double quotes it has in the text of a JSON object.
TimestampKey == <<"_", "S", "O", "U", "R", "C", "E", "_", "R", "E", "A", "L", "T", "I", "M", "E", "_", "T", "I", "M", "E", "S", "T", "A", "M", "P">>

QuotedTimestampKey == FormatQ(TimestampKey)

MessageKey == <<"M", "E", "S", "S", "A", "G", "E">>

PriorityKey == <<"P", "R", "I", "O", "R", "I", "T", "Y">>

\* A token of a line that is not a JSON object: key=value, a bare word, or a
\* malformed token (a "=" with no key).
Pair(k, v) == [form |-> "pair", k |-> k, v |-> v]

Word(w) == [form |-> "word", k |-> w, v |-> << >>]

BareEq == [form |-> "bareeq", k |-> << >>, v |-> << >>]

\* A line that spells the JSON object o (keys and string values written
\* without escapes), after the "@cee: " prefix if cee.
ObjectLine(cee, o) == [cee |-> cee, json |-> TRUE, obj |-> o, toks |-> << >>]

\* A line made of the tokens toks separated by single spaces.
TextLine(cee, toks) == [cee |-> cee, json |-> FALSE, obj |-> EmptyMap, toks |-> toks]

\* The text of a token.
TokenBytes(tk) ==
  CASE tk.form = "pair"   -> tk.k \o <<"=">> \o tk.v
    [] tk.form = "word"   -> tk.k
    [] tk.form = "bareeq" -> <<"=">>

\* bytes.Contains
Contains(s, p) == \E i \in 0..(Len(s) - Len(p)) : SubSeq(s, i + 1, i + Len(p)) = p

\* Whether the text of the JSON object o contains "_SOURCE_REALTIME_TIMESTAMP"
\* between double quotes: as a key or as a string value, at any depth.
RECURSIVE ObjectContainsKey(_)
ObjectContainsKey(o) ==
  \E k \in DOMAIN o :
    \/ k = TimestampKey
    \/ o[k].t = "string" /\ o[k].s = TimestampKey
    \/ o[k].t = "object" /\ ObjectContainsKey(o[k].o)

\* bytes.Contains(d, []byte(`"_SOURCE_REALTIME_TIMESTAMP"`))
ContainsTimestampKey(d) ==
  \/ d.json /\ ObjectContainsKey(d.obj)
  \/ ~d.json /\ Contains(Join([i \in 1..Len(d.toks) |-> TokenBytes(d.toks[i])], <<" ">>), QuotedTimestampKey)

\* bytes.TrimPrefix(lineData, []byte("@cee: "))
TrimPrefix(d) == [d EXCEPT !.cee = FALSE]

\* json.Unmarshal(data, &raw) with raw a map[string]interface{}: the object
\* the line spells, or an error when the line is not a JSON object.
JSONUnmarshal(d) ==
  IF d.json /\ ~d.cee THEN [err |-> FALSE, raw |-> d.obj] ELSE [err |-> TRUE, raw |-> EmptyMap]

-----------------------------------------------------------------------------
\* int64, time.Time and strconv.ParseInt.

\* An int64 whose value may be wider than the integers of the model: its
\* sign and the decimal digits of its magnitude, without leading zeros
\* (zero is not negative and has the digit "0").
Int64(neg, mag) == [neg |-> neg, mag |-> mag]

\* The int64 of an integer of the model.
Int64Of(k) == Int64(k < 0, Digits(IF k < 0 THEN -k ELSE k))

\* s without its leading "0" characters; "0" if it has no other.
StripLeadingZeros(s) ==
  IF LeadingZeros(s) = Len(s) THEN <<"0">> ELSE SubSeq(s, LeadingZeros(s) + 1, Len(s))

\* a < b for magnitudes written without leading zeros.
MagLess(a, b) == Len(a) < Len(b) \/ (Len(a) = Len(b) /\ StrLess(a, b))

\* The last digit of a (0 if a is empty), a without it, and the character
\* of the digit d.
LastDigit(a) == IF a = << >> THEN 0 ELSE Code(a[Len(a)]) - Code("0")

Front(a) == IF a = << >> THEN << >> ELSE SubSeq(a, 1, Len(a) - 1)

DigitChar(d) == Digits(d)[1]

\* The digits of a + b + c, for a carry c of 0 or 1.
RECURSIVE AddMag(_, _, _)
AddMag(a, b, c) ==
  IF a = << >> /\ b = << >> THEN (IF c = 0 THEN << >> ELSE <<"1">>)
  ELSE AddMag(Front(a), Front(b), (LastDigit(a) + LastDigit(b) + c) \div 10)
         \o <<DigitChar((LastDigit(a) + LastDigit(b) + c) % 10)>>

\* The digits of a - b - c for a >= b + c and a borrow c of 0 or 1, as many
\* as a has.
RECURSIVE SubMag(_, _, _)
SubMag(a, b, c) ==
  IF a = << >> THEN << >>
  ELSE SubMag(Front(a), Front(b), IF LastDigit(a) - LastDigit(b) - c < 0 THEN 1 ELSE 0)
         \o <<DigitChar((LastDigit(a) - LastDigit(b) - c + 10) % 10)>>

\* x + y on int64 (for sums within the range of int64).
Int64Add(x, y) ==
  IF x.neg = y.neg THEN Int64(x.neg, AddMag(x.mag, y.mag, 0))
  ELSE IF x.mag = y.mag THEN Int64(FALSE, <<"0">>)
  ELSE IF MagLess(x.mag, y.mag) THEN Int64(y.neg, StripLeadingZeros(SubMag(y.mag, x.mag, 0)))
  ELSE Int64(x.neg, StripLeadingZeros(SubMag(x.mag, y.mag, 0)))

\* Go's integer division (truncated toward zero) and remainder (sign of a).
GoDiv(a, b) == IF a >= 0 THEN a \div b ELSE -((-a) \div b)

GoRem(a, b) == a - b * GoDiv(a, b)

\* n / int64(1e6) on int64: truncated toward zero.
QuoMillion(n) ==
  IF Len(n.mag) <= 6 THEN Int64(FALSE, <<"0">>)
  ELSE Int64(n.neg, SubSeq(n.mag, 1, Len(n.mag) - 6))

\* The value of a string of decimal digits.
RECURSIVE DigitsValue(_)
DigitsValue(s) ==
  IF s = << >> THEN 0
  ELSE 10 * DigitsValue(SubSeq(s, 1, Len(s) - 1)) + (Code(s[Len(s)]) - Code("0"))

\* The last six digits of a magnitude (all of them if it has fewer).
LastSix(mag) == IF Len(mag) <= 6 THEN mag ELSE SubSeq(mag, Len(mag) - 5, Len(mag))

\* n % int64(1e6) on int64: the remainder has the sign of n.
RemMillion(n) == IF n.neg THEN -DigitsValue(LastSix(n.mag)) ELSE DigitsValue(LastSix(n.mag))

\* time.Time{}: the zero time (not the Unix epoch).
ZeroTime == [zero |-> TRUE, sec |-> Int64(FALSE, <<"0">>), nsec |-> 0]

\* The time sec seconds and nsec nanoseconds after the epoch, for
\* -1e9 < nsec < 1e9: a negative nsec borrows one second.
normalizedTime(sec, nsec) ==
  IF nsec < 0
  THEN [zero |-> FALSE, sec |-> Int64Add(sec, Int64Of(-1)), nsec |-> nsec + 1000 * 1000 * 1000]
  ELSE [zero |-> FALSE, sec |-> sec, nsec |-> nsec]

\* time.Unix(sec, nsec): nsec outside [0, 1e9) is carried into sec.
TimeUnix(sec, nsec) ==
  normalizedTime(Int64Add(sec, Int64Of(GoDiv(nsec, 1000 * 1000 * 1000))),
                 GoRem(nsec, 1000 * 1000 * 1000))

IsDigit(c) == c \in {"0", "1", "2", "3", "4", "5", "6", "7", "8", "9"}

\* 1<<63 - 1 and 1<<63: the largest magnitudes of a positive and of a
\* negative int64.
MaxInt64Digits == <<"9", "2", "2", "3", "3", "7", "2", "0", "3", "6", "8", "5", "4", "7", "7", "5", "8", "0", "7">>

MinInt64Digits == <<"9", "2", "2", "3", "3", "7", "2", "0", "3", "6", "8", "5", "4", "7", "7", "5", "8", "0", "8">>

\* strconv.ParseInt once the digits are known to be decimal: the value mag
\* with its sign, or a range error with the nearest int64 when the value
\* does not fit.
parseRange(negative, mag, limit) ==
  IF MagLess(limit, mag) THEN [err |-> TRUE, n |-> Int64(negative, limit)]
  ELSE [err |-> FALSE, n |-> Int64(negative /\ mag # <<"0">>, mag)]

\* strconv.ParseInt on the digits body after the sign: a syntax error (and
\* 0) unless body is one decimal digit or more; leading zeros do not count
\* for the range.
ParseDigits(negative, body) ==
  IF body = << >> \/ \E i \in 1..Len(body) : ~IsDigit(body[i])
  THEN [err |-> TRUE, n |-> Int64(FALSE, <<"0">>)]
  ELSE parseRange(negative, StripLeadingZeros(body),
                  IF negative THEN MinInt64Digits ELSE MaxInt64Digits)

\* strconv.ParseInt(s, 10, 64)
ParseInt(s) ==
  IF s # << >> /\ Head(s) \in {"+", "-"} THEN ParseDigits(Head(s) = "-", Tail(s))
  ELSE ParseDigits(FALSE, s)

-----------------------------------------------------------------------------
\* JournalJSONHandler.  A handler value h holds the fields Level, Time,
\* Message, Fields and last; opts is the HandlerOptions it points to.  The
\* tabwriter and its buffer hold nothing between two calls (clear resets the
\* buffer) and are not part of h; colours are kept as the name of the style
\* next to the text they wrap, and add no bytes to it.

\* A handler as constructed by Scanner: every field has its zero value.
NewHandler == [Level |-> << >>, Time |-> ZeroTime, Message |-> << >>, Fields |-> EmptyMap, last |-> EmptyMap]

\* clear without the line h.last = h.Fields.
clearKeepsLast(h) ==
  [h EXCEPT !.Level = << >>, !.Time = ZeroTime, !.Message = << >>, !.Fields = EmptyMap]

\* clear with the two maps exchanged instead of a new map made for Fields.
clearSwapsMaps(h) ==
  [h EXCEPT !.Level = << >>, !.Time = ZeroTime, !.Message = << >>,
            !.last = h.Fields, !.Fields = h.last]

clear(h) ==
  [h EXCEPT !.Level = << >>, !.Time = ZeroTime, !.Message = << >>,
            !.last = h.Fields, !.Fields = EmptyMap]

\* The string a field value is stored as (the type switch of the loop over raw).
StringifyValue(v) ==
  CASE v.t = "number" ->
         IF FractionBelowMicro(v.whole, v.frac) /\ v.whole < 1000 * 1000 * 1000
         THEN Itoa(FloatToInt(v.whole, v.frac))
         ELSE FormatG(v.whole, v.frac)
    [] v.t = "string" -> FormatQ(v.s)
    [] OTHER -> FormatV(v)

\* raw[key].(string): the string and ok, or "" and not ok.
StringAt(raw, key) ==
  IF key \in DOMAIN raw /\ raw[key].t = "string"
  THEN [ok |-> TRUE, s |-> raw[key].s] ELSE [ok |-> FALSE, s |-> << >>]

\* if ..., ok = raw[key].(string); ok { delete(raw, key) }
DeleteString(raw, key) ==
  IF key \in DOMAIN raw /\ raw[key].t = "string" THEN MapDel(raw, key) ELSE raw

\* The loop over raw: every remaining key is stored, stringified, in Fields.
unmarshalFields(h, raw) ==
  [h EXCEPT !.Fields = [k \in (DOMAIN h.Fields) \cup (DOMAIN raw) |->
                          IF k \in DOMAIN raw THEN StringifyValue(raw[k]) ELSE h.Fields[k]]]

\* UnmarshalJournalJSON after the timestamp: Message, Level and the fields.
unmarshalEntry(h, raw) ==
  [err |-> FALSE,
   h |-> unmarshalFields(
           [h EXCEPT !.Message = StringAt(raw, MessageKey).s,
                     !.Level = StringAt(DeleteString(raw, MessageKey), PriorityKey).s],
           DeleteString(DeleteString(raw, MessageKey), PriorityKey))]

\* unmarshalTime with the remainder of the microseconds not multiplied by 1e3.
unmarshalTimeNoScale(h, p, raw) ==
  IF p.err THEN [err |-> TRUE, h |-> h]
  ELSE unmarshalEntry(
         [h EXCEPT !.Time = TimeUnix(QuoMillion(p.n), RemMillion(p.n))],
         raw)

\* UnmarshalJournalJSON from the parsed timestamp p on.
unmarshalTime(h, p, raw) ==
  IF p.err THEN [err |-> TRUE, h |-> h]
  ELSE unmarshalEntry(
         [h EXCEPT !.Time = TimeUnix(QuoMillion(p.n), RemMillion(p.n) * 1000)],
         raw)

\* UnmarshalJournalJSON from the decoded object u on.
unmarshalRaw(h, u) ==
  IF u.err THEN [err |-> TRUE, h |-> h]
  ELSE IF TimestampKey \notin DOMAIN u.raw THEN unmarshalEntry(h, u.raw)
  ELSE IF u.raw[TimestampKey].t # "string" THEN [err |-> TRUE, h |-> h]
  ELSE unmarshalTime(h, ParseInt(u.raw[TimestampKey].s), MapDel(u.raw, TimestampKey))

\* UnmarshalJournalJSON: the error it returns and the handler it leaves.
UnmarshalJournalJSON(h, data) == unmarshalRaw(h, JSONUnmarshal(data))

\* TryHandle after UnmarshalJournalJSON has returned r.
tryHandleResult(r) ==
  IF r.err THEN [ok |-> FALSE, h |-> clear(r.h)] ELSE [ok |-> TRUE, h |-> r.h]

\* TryHandle: what it returns (ok) and the handler it leaves.
TryHandle(h, d) ==
  IF ~ContainsTimestampKey(d) THEN [ok |-> FALSE, h |-> h]
  ELSE tryHandleResult(UnmarshalJournalJSON(h, d))

\* shouldShowKey without the test of the underscore prefix.
shouldShowKeyNoUnderscore(opts, key) ==
  IF opts.Keep # {} /\ (key \in opts.Keep \/ ToLower(key) \in opts.Keep) THEN TRUE
  ELSE IF opts.Skip # {} /\ (key \in opts.Skip \/ ToLower(key) \in opts.Skip) THEN FALSE
  ELSE TRUE

shouldShowKey(opts, key) ==
  IF opts.Keep # {} /\ (key \in opts.Keep \/ ToLower(key) \in opts.Keep) THEN TRUE
  ELSE IF opts.Skip # {} /\ (key \in opts.Skip \/ ToLower(key) \in opts.Skip) THEN FALSE
  ELSE IF HasPrefix(key, <<"_">>) THEN FALSE
  ELSE TRUE

shouldShowUnchanged(opts, key) ==
  IF opts.Keep # {} /\ key \in opts.Keep THEN TRUE
  ELSE IF opts.Keep # {} /\ ToLower(key) \in opts.Keep THEN TRUE
  ELSE FALSE

\* sort.Strings on a sequence of strings (insertion sort: the result does not
\* depend on the algorithm).
RECURSIVE InsertString(_, _)
InsertString(s, x) ==
  IF s = << >> THEN <<x>>
  ELSE IF StrLess(x, Head(s)) THEN <<x>> \o s
  ELSE <<Head(s)>> \o InsertString(Tail(s), x)

\* sort.Strings left out: the strings stay as they are.
unsortedStrings(s) == s

RECURSIVE sortStrings(_)
sortStrings(s) ==
  IF s = << >> THEN << >> ELSE InsertString(sortStrings(SubSeq(s, 1, Len(s) - 1)), s[Len(s)])

\* sort.Stable(byLongest(kv)): by increasing length, equal lengths keep their order.
RECURSIVE InsertByLength(_, _)
InsertByLength(s, x) ==
  IF s = << >> THEN <<x>>
  ELSE IF Len(x) < Len(Head(s)) THEN <<x>> \o s
  ELSE <<Head(s)>> \o InsertByLength(Tail(s), x)

RECURSIVE byLongest(_)
byLongest(s) ==
  IF s = << >> THEN << >> ELSE InsertByLength(byLongest(SubSeq(s, 1, Len(s) - 1)), s[Len(s)])

\* The value as joinKVs shows it: cut to TruncateLength, with "...", when
\* Truncates is set and it is longer.
truncate(opts, v) ==
  IF opts.Truncates /\ Len(v) > opts.TruncateLength
  THEN SubSeq(v, 1, opts.TruncateLength) \o <<".", ".", ".">>
  ELSE v

\* The fields joinKVs keeps: shown by name and not skipped as unchanged.
visibleKeys(h, opts, skipUnchanged) ==
  {k \in DOMAIN h.Fields :
     /\ shouldShowKey(opts, k)
     /\ ~(/\ skipUnchanged
          /\ k \in DOMAIN h.last
          /\ h.last[k] = h.Fields[k]
          /\ ~shouldShowUnchanged(opts, k))}

\* The orders in which a range loop may go through a map with the keys S:
\* Go leaves the order open, every enumeration of S is possible.
Orders(S) ==
  {s \in [1..Cardinality(S) -> S] : \A i, j \in 1..Cardinality(S) : s[i] = s[j] => i = j}

\* Color.Sprint of a colour with the SGR parameters c: the text between the
\* escape sequences that set and reset the colour, or the text alone when
\* colours are off (color.NoColor: no terminal on standard output, or
\* NO_COLOR set).
Sprint(noColor, c, s) ==
  IF noColor THEN s
  ELSE <<"ESC", "[">> \o c \o <<"m">> \o s \o <<"ESC", "[", "0", "m">>

\* kstr+sep+vstr: the key in KeyColor, sep, and the value as shown, cut
\* before it is coloured, in ValColor.
renderKV(opts, sep, k, v) ==
  Sprint(opts.NoColor, opts.KeyColor, k) \o sep \o Sprint(opts.NoColor, opts.ValColor, truncate(opts, v))

\* The pairs of the keys ks, in their order.
renderKVs(h, opts, sep, ks) ==
  [i \in 1..Len(ks) |-> renderKV(opts, sep, ks[i], h.Fields[ks[i]])]

\* if h.Opts.SortLongest { sort.Stable(byLongest(kv)) }
sortLongest(opts, kv) == IF opts.SortLongest THEN byLongest(kv) ELSE kv

\* joinKVs: key, sep, value of every kept field, appended while the loop
\* ranges over h.Fields in the order order, then sorted.
joinKVs(h, opts, skipUnchanged, sep, order) ==
  sortLongest(opts,
    sortStrings(renderKVs(h, opts, sep,
      SelectSeq(order, LAMBDA k : k \in visibleKeys(h, opts, skipUnchanged)))))

\* levelCode without "5" in the case of INFO.
levelCodeNoNotice(level) ==
  CASE level = <<"7">> -> [text |-> <<"D", "E", "B", "U">>, style |-> "DebugLevelColor"]
    [] level = <<"6">> -> [text |-> <<"I", "N", "F", "O">>, style |-> "InfoLevelColor"]
    [] level = <<"4">> -> [text |-> <<"W", "A", "R", "N">>, style |-> "WarnLevelColor"]
    [] level = <<"3">> -> [text |-> <<"E", "R", "R", "O">>, style |-> "ErrorLevelColor"]
    [] level \in {<<"2">>, <<"1">>, <<"0">>} -> [text |-> <<"F", "A", "T", "A">>, style |-> "FatalLevelColor"]
    [] OTHER -> [text |-> <<"U", "N", "K", "N">>, style |-> "UnknownLevelColor"]

\* The four-letter code of a journal priority and the option that styles it.
levelCode(level) ==
  CASE level = <<"7">> -> [text |-> <<"D", "E", "B", "U">>, style |-> "DebugLevelColor"]
    [] level \in {<<"5">>, <<"6">>} -> [text |-> <<"I", "N", "F", "O">>, style |-> "InfoLevelColor"]
    [] level = <<"4">> -> [text |-> <<"W", "A", "R", "N">>, style |-> "WarnLevelColor"]
    [] level = <<"3">> -> [text |-> <<"E", "R", "R", "O">>, style |-> "ErrorLevelColor"]
    [] level \in {<<"2">>, <<"1">>, <<"0">>} -> [text |-> <<"F", "A", "T", "A">>, style |-> "FatalLevelColor"]
    [] OTHER -> [text |-> <<"U", "N", "K", "N">>, style |-> "UnknownLevelColor"]

\* "<no msg>"
NoMsg == <<"<", "n", "o", " ", "m", "s", "g", ">">>

\* Prettify without the deferred h.clear().
PrettifyNoClear(h, opts, skipUnchanged, order) ==
  [bytes |-> [time       |-> h.Time,
              timeStyle  |-> IF opts.LightBg THEN "TimeLightBgColor" ELSE "TimeDarkBgColor",
              level      |-> levelCode(h.Level).text,
              levelStyle |-> levelCode(h.Level).style,
              msg        |-> IF h.Message = << >> THEN NoMsg ELSE h.Message,
              msgStyle   |-> "FgHiWhite",
              kvs        |-> joinKVs(h, opts, skipUnchanged, <<"=">>, order)],
   h |-> h]

\* Prettify: the bytes it returns (time, level, message and key=value pairs,
\* each with the style it is printed in) and the handler the deferred clear
\* leaves; order is the order in which joinKVs' loop goes through h.Fields.
\* The message styles chosen from LightBg are overwritten by
\* color.New(color.FgHiWhite) before they are used.
Prettify(h, opts, skipUnchanged, order) ==
  [bytes |-> [time       |-> h.Time,
              timeStyle  |-> IF opts.LightBg THEN "TimeLightBgColor" ELSE "TimeDarkBgColor",
              level      |-> levelCode(h.Level).text,
              levelStyle |-> levelCode(h.Level).style,
              msg        |-> IF h.Message = << >> THEN NoMsg ELSE h.Message,
              msgStyle   |-> "FgHiWhite",
              kvs        |-> joinKVs(h, opts, skipUnchanged, <<"=">>, order)],
   h |-> clear(h)]

-----------------------------------------------------------------------------
\* JSONHandler and LogrusHandler (with logfmt.Parse).  They hold the same
\* fields as JournalJSONHandler and share its visibility, diffing and
\* ordering of fields; the time of their entries is left at its zero value.

LevelKey == <<"l", "e", "v", "e", "l">>

MsgKey == <<"m", "s", "g">>

\* The entry of a JSONHandler or LogrusHandler from the decoded keys raw:
\* "level" and "msg" become Level and Message, every other key a field.
genericEntry(h, raw) ==
  [h EXCEPT !.Level = StringAt(raw, LevelKey).s,
            !.Message = StringAt(DeleteString(raw, LevelKey), MsgKey).s,
            !.Fields = [k \in DOMAIN DeleteString(DeleteString(raw, LevelKey), MsgKey) |->
                          StringifyValue(raw[k])]]

\* JSONHandler.TryHandle after json.Unmarshal has returned u.
jsonTryHandleResult(h, u) ==
  IF u.err THEN [ok |-> FALSE, h |-> h] ELSE [ok |-> TRUE, h |-> genericEntry(h, u.raw)]

\* JSONHandler.TryHandle: any JSON object is accepted.  A failure leaves the
\* handler as it was.
JSONTryHandle(h, d) == jsonTryHandleResult(h, JSONUnmarshal(d))

\* The rendering of the entry of a JSONHandler or LogrusHandler: the level
\* is shown as the entry holds it.
GenericPrettify(h, opts, skipUnchanged, order) ==
  [bytes |-> [time       |-> h.Time,
              timeStyle  |-> IF opts.LightBg THEN "TimeLightBgColor" ELSE "TimeDarkBgColor",
              level      |-> h.Level,
              levelStyle |-> "UnknownLevelColor",
              msg        |-> IF h.Message = << >> THEN NoMsg ELSE h.Message,
              msgStyle   |-> IF opts.LightBg THEN "MsgLightBgColor" ELSE "MsgDarkBgColor",
              kvs        |-> joinKVs(h, opts, skipUnchanged, <<"=">>, order)],
   h |-> clear(h)]

\* LogrusHandler.CanHandle: the line has a key=value token.
CanHandle(d) == ~d.json /\ \E i \in 1..Len(d.toks) : d.toks[i].form = "pair"

\* The value of the last token of toks with the key k.
LastValue(toks, k) ==
  toks[CHOOSE i \in 1..Len(toks) :
         toks[i].k = k /\ \A j \in (i + 1)..Len(toks) : toks[j].k # k].v

\* The entry logrusEntry.visit builds from the tokens: "level" and "msg"
\* become Level and Message, every other key a field with its value as
\* written.
logfmtEntry(h, toks, keys) ==
  [h EXCEPT !.Level = IF LevelKey \in keys THEN LastValue(toks, LevelKey) ELSE << >>,
            !.Message = IF MsgKey \in keys THEN LastValue(toks, MsgKey) ELSE << >>,
            !.Fields = [k \in keys \ {LevelKey, MsgKey} |-> LastValue(toks, k)]]

\* logfmt.Parse(d, true, true, logrusEntry.visit): strict parsing accepts a
\* line only if every token is key=value.  A failure leaves the handler as
\* it was.
LogfmtParse(h, d) ==
  IF \E i \in 1..Len(d.toks) : d.toks[i].form # "pair" THEN [ok |-> FALSE, h |-> h]
  ELSE [ok |-> TRUE, h |-> logfmtEntry(h, d.toks, {d.toks[i].k : i \in 1..Len(d.toks)})]

-----------------------------------------------------------------------------
\* The inputs of the model: the options and the lines of the stream.

KeyB == <<"B">>

KeyP == <<"_", "P">>

\* Names the Keep and Skip sets are made of: the lowercase form of B, and _P.
OptionNames == {ToLower(KeyB), KeyP}

\* color.FgGreen and color.FgHiWhite
FgGreen == <<"3", "2">>

FgHiWhite == <<"9", "7">>

\* The options carry the switch color.NoColor of the colour package with
\* them: it is set once, before the Scanner runs.
OptionSets ==
  [SkipUnchanged : BOOLEAN, LightBg : {FALSE}, Truncates : {TRUE}, TruncateLength : {15},
   Keep : SUBSET OptionNames, Skip : SUBSET OptionNames, SortLongest : {TRUE},
   KeyColor : {FgGreen}, ValColor : {FgHiWhite}, NoColor : {TRUE}]

ValX == JString(<<"x">>)

Val3 == JNumber(3, 0)

\* The keys every journal entry of the model has.
JournalBase ==
  [k \in {TimestampKey, MessageKey, PriorityKey} |->
     CASE k = TimestampKey -> JString(<<"1", "0", "0", "0", "0", "0", "0">>)
       [] k = MessageKey   -> JString(<<"h", "i">>)
       [] k = PriorityKey  -> JString(<<"6">>)]

\* The object m with the entries of n added.
MapMerge(m, n) == [k \in (DOMAIN m) \cup (DOMAIN n) |-> IF k \in DOMAIN n THEN n[k] ELSE m[k]]

\* {"B": b, "_P": "x"}
FieldsBP(b) == [k \in {KeyB, KeyP} |-> IF k = KeyB THEN b ELSE ValX]

\* {"B": b}
FieldsB(b) == [k \in {KeyB} |-> b]

\* Two journal entries; the second comes with the "@cee: " prefix.
JournalLines ==
  { ObjectLine(FALSE, MapMerge(JournalBase, FieldsBP(ValX))),
    ObjectLine(TRUE, MapMerge(JournalBase, FieldsBP(Val3))) }

\* Lines with the timestamp key that are no journal entries: the timestamp is
\* a number; the key is that of a nested object only; the line is no JSON.
MarkerLines ==
  { ObjectLine(FALSE, MapMerge(FieldsB(Val3), [k \in {TimestampKey} |-> JNumber(5, 0)])),
    ObjectLine(FALSE, FieldsB(JObject([k \in {TimestampKey} |-> JString(<<"1">>)]))),
    TextLine(FALSE, <<Word(QuotedTimestampKey)>>) }

JSONLines == {ObjectLine(FALSE, FieldsB(ValX))}

\* A logfmt line, and one with a malformed last token.
LogfmtLines ==
  { TextLine(FALSE, <<Pair(KeyB, <<"x">>), Pair(KeyP, <<"x">>)>>),
    TextLine(FALSE, <<Pair(KeyB, <<"x">>), BareEq>>) }

PlainLines == {TextLine(c, <<Word(<<"h", "e", "l", "l", "o">>)>>) : c \in BOOLEAN}

Lines == JournalLines \cup MarkerLines \cup JSONLines \cup LogfmtLines \cup PlainLines

\* One set of options: nothing kept or skipped by name, unchanged fields shown.
PlainOptions ==
  [SkipUnchanged : {FALSE}, LightBg : {FALSE}, Truncates : {TRUE}, TruncateLength : {15},
   Keep : {{}}, Skip : {{}}, SortLongest : {TRUE},
   KeyColor : {FgGreen}, ValColor : {FgHiWhite}, NoColor : {TRUE}]

\* One line for each of the generic JSON handler, the Logfmt handler and the
\* default case.
OtherLines ==
  { ObjectLine(FALSE, FieldsB(ValX)),
    TextLine(FALSE, <<Pair(KeyB, <<"x">>), Pair(KeyP, <<"x">>)>>),
    TextLine(FALSE, <<Word(<<"h", "e", "l", "l", "o">>)>>) }

\* Values of PRIORITY: every syslog priority, strings that are none, and a
\* number.
PriorityValues ==
  {JString(<<c>>) : c \in {"0", "1", "2", "3", "4", "5", "6", "7", "9"}}
    \cup {JString(<< >>), JString(<<"1", "0">>), JNumber(6, 0)}

\* Journal entries with each of these priorities, and one without PRIORITY.
LevelLines ==
  {ObjectLine(FALSE, MapMerge(JournalBase, [k \in {PriorityKey} |-> p])) : p \in PriorityValues}
    \cup {ObjectLine(FALSE, MapDel(JournalBase, PriorityKey))}

-----------------------------------------------------------------------------
\* Scanner.

VARIABLES
  src,               \* the lines the reader src may hold
  inErr,             \* in.Err(): "nil", or "err" once a read has failed
  opts,              \* *opts, the HandlerOptions
  pc,                \* where Scanner is
  line,              \* the line counter
  rawLine,           \* in.Bytes(), as read
  lineData,          \* lineData
  lastLogrus, lastJSON, lastJournalJSON,
  logrusEntry, jsonEntry, journalJSONEntry,
  out,               \* the calls of dst.Write, in order
  ret,               \* what Scanner returns: "nil" or "err"
  input,             \* the lines read so far, in order
  calls              \* the calls of the handlers' methods, in order

vars == <<src, inErr, opts, pc, line, rawLine, lineData, lastLogrus, lastJSON, lastJournalJSON,
          logrusEntry, jsonEntry, journalJSONEntry, out, ret, input, calls>>

NoLine == TextLine(FALSE, << >>)

NoRender ==
  [time |-> ZeroTime, timeStyle |-> "", level |-> << >>, levelStyle |-> "",
   msg |-> << >>, msgStyle |-> "", kvs |-> << >>]

\* One call of dst.Write while line n is handled: what Prettify of handler
\* by returned, the line itself (by = "none"), or the newline eol.
WriteRendered(n, by, bytes) == [n |-> n, kind |-> "rendered", by |-> by, line |-> NoLine, bytes |-> bytes]

WriteLine(n, d) == [n |-> n, kind |-> "line", by |-> "none", line |-> d, bytes |-> NoRender]

WriteEol(n) == [n |-> n, kind |-> "eol", by |-> "none", line |-> NoLine, bytes |-> NoRender]

\* One call of a handler: op with its argument (Prettify's skipUnchanged) or
\* its result (whether the decoder accepted the line) in v.
Call(n, h, op, v) == [n |-> n, h |-> h, op |-> op, v |-> v]

\* Scanner is called: dst is empty, the locals have their zero values and
\* nothing has been read.  O are the options and L the lines to choose from.
Start(O, L) ==
  /\ opts \in O
  /\ src = L
  /\ inErr = "nil"
  /\ pc = "scan"
  /\ line = 0
  /\ rawLine = NoLine
  /\ lineData = NoLine
  /\ lastLogrus = FALSE
  /\ lastJSON = FALSE
  /\ lastJournalJSON = FALSE
  /\ logrusEntry = NewHandler
  /\ jsonEntry = NewHandler
  /\ journalJSONEntry = NewHandler
  /\ out = << >>
  /\ ret = "running"
  /\ input = << >>
  /\ calls = << >>

Init == Start(OptionSets, Lines)

\* The switch on in.Err() with every error returned as nil.
ScannerReturnNil(err) == "nil"

\* switch err := in.Err(); err { case nil, io.EOF: return nil; default: return err }
ScannerReturn(err) == IF err \in {"nil", "io.EOF"} THEN "nil" ELSE err

\* ScanLine with the generic JSON case put first in the switch.
ScanLineJSONFirst ==
  /\ pc = "scan"
  /\ line < MaxLines
  /\ \E l \in src :
       /\ rawLine' = l
       /\ lineData' = TrimPrefix(l)
       /\ input' = Append(input, l)
  /\ line' = line + 1
  /\ pc' = "JSON"
  /\ UNCHANGED <<src, inErr, opts, lastLogrus, lastJSON, lastJournalJSON, logrusEntry, jsonEntry,
                 journalJSONEntry, out, ret, calls>>

\* in.Scan() returns true: the next line is read and its prefix removed.
ScanLine ==
  /\ pc = "scan"
  /\ line < MaxLines
  /\ \E l \in src :
       /\ rawLine' = l
       /\ lineData' = TrimPrefix(l)
       /\ input' = Append(input, l)
  /\ line' = line + 1
  /\ pc' = "journalJSON"
  /\ UNCHANGED <<src, inErr, opts, lastLogrus, lastJSON, lastJournalJSON, logrusEntry, jsonEntry,
                 journalJSONEntry, out, ret, calls>>

\* in.Scan() returns false at the end of the stream (in.Err() is nil, also
\* when the reader has returned io.EOF): Scanner returns.
ScanEnd ==
  /\ pc = "scan"
  /\ pc' = "done"
  /\ ret' = ScannerReturn(inErr)
  /\ UNCHANGED <<src, inErr, opts, line, rawLine, lineData, lastLogrus, lastJSON, lastJournalJSON,
                 logrusEntry, jsonEntry, journalJSONEntry, out, input, calls>>

\* in.Scan() returns false on a read error, which in.Err() holds: Scanner
\* returns.
ScanError ==
  /\ pc = "scan"
  /\ pc' = "done"
  /\ inErr' = "err"
  /\ ret' = ScannerReturn(inErr')
  /\ UNCHANGED <<src, opts, line, rawLine, lineData, lastLogrus, lastJSON, lastJournalJSON,
                 logrusEntry, jsonEntry, journalJSONEntry, out, input, calls>>

\* case journalJSONEntry.TryHandle(lineData)
CaseJournalJSON ==
  /\ pc = "journalJSON"
  /\ LET r == TryHandle(journalJSONEntry, lineData)
     IN  /\ journalJSONEntry' = r.h
         /\ calls' = Append(calls, Call(line, "journalJSON", "TryHandle", r.ok))
         /\ pc' = IF r.ok THEN "journalJSONPrettify" ELSE "JSON"
  /\ UNCHANGED <<src, inErr, opts, line, rawLine, lineData, lastLogrus, lastJSON, lastJournalJSON,
                 logrusEntry, jsonEntry, out, ret, input>>

\* dst.Write(journalJSONEntry.Prettify(opts.SkipUnchanged && lastJournalJSON))
\* lastJournalJSON = true
WriteJournalJSON ==
  /\ pc = "journalJSONPrettify"
  /\ \E order \in Orders(DOMAIN journalJSONEntry.Fields) :
       LET su == opts.SkipUnchanged /\ lastJournalJSON
           r  == Prettify(journalJSONEntry, opts, su, order)
       IN  /\ journalJSONEntry' = r.h
           /\ calls' = Append(calls, Call(line, "journalJSON", "Prettify", su))
           /\ out' = Append(out, WriteRendered(line, "journalJSON", r.bytes))
  /\ lastJournalJSON' = TRUE
  /\ pc' = "eol"
  /\ UNCHANGED <<src, inErr, opts, line, rawLine, lineData, lastLogrus, lastJSON,
                 logrusEntry, jsonEntry, ret, input>>

\* case jsonEntry.TryHandle(lineData)
CaseJSON ==
  /\ pc = "JSON"
  /\ LET r == JSONTryHandle(jsonEntry, lineData)
     IN  /\ jsonEntry' = r.h
         /\ calls' = Append(calls, Call(line, "JSON", "TryHandle", r.ok))
         /\ pc' = IF r.ok THEN "JSONPrettify" ELSE "logrus"
  /\ UNCHANGED <<src, inErr, opts, line, rawLine, lineData, lastLogrus, lastJSON, lastJournalJSON,
                 logrusEntry, journalJSONEntry, out, ret, input>>

\* dst.Write(jsonEntry.Prettify(opts.SkipUnchanged && lastJSON))
\* lastJSON = true
WriteJSON ==
  /\ pc = "JSONPrettify"
  /\ \E order \in Orders(DOMAIN jsonEntry.Fields) :
       LET su == opts.SkipUnchanged /\ lastJSON
           r  == GenericPrettify(jsonEntry, opts, su, order)
       IN  /\ jsonEntry' = r.h
           /\ calls' = Append(calls, Call(line, "JSON", "Prettify", su))
           /\ out' = Append(out, WriteRendered(line, "JSON", r.bytes))
  /\ lastJSON' = TRUE
  /\ pc' = "eol"
  /\ UNCHANGED <<src, inErr, opts, line, rawLine, lineData, lastLogrus, lastJournalJSON,
                 logrusEntry, journalJSONEntry, ret, input>>

\* CaseLogrus with the result of logfmt.Parse not looked at.
CaseLogrusIgnoresParse ==
  /\ pc = "logrus"
  /\ LET can == CanHandle(lineData)
         r   == LogfmtParse(logrusEntry, lineData)
     IN  IF ~can
         THEN /\ logrusEntry' = logrusEntry
              /\ calls' = Append(calls, Call(line, "logrus", "CanHandle", FALSE))
              /\ pc' = "default"
         ELSE /\ logrusEntry' = r.h
              /\ calls' = calls \o <<Call(line, "logrus", "CanHandle", TRUE),
                                     Call(line, "logrus", "Parse", r.ok)>>
              /\ pc' = "logrusPrettify"
  /\ UNCHANGED <<src, inErr, opts, line, rawLine, lineData, lastLogrus, lastJSON, lastJournalJSON,
                 jsonEntry, journalJSONEntry, out, ret, input>>

\* case logrusEntry.CanHandle(lineData) && logfmt.Parse(lineData, true, true, logrusEntry.visit)
CaseLogrus ==
  /\ pc = "logrus"
  /\ LET can == CanHandle(lineData)
         r   == LogfmtParse(logrusEntry, lineData)
     IN  IF ~can
         THEN /\ logrusEntry' = logrusEntry
              /\ calls' = Append(calls, Call(line, "logrus", "CanHandle", FALSE))
              /\ pc' = "default"
         ELSE /\ logrusEntry' = r.h
              /\ calls' = calls \o <<Call(line, "logrus", "CanHandle", TRUE),
                                     Call(line, "logrus", "Parse", r.ok)>>
              /\ pc' = IF r.ok THEN "logrusPrettify" ELSE "default"
  /\ UNCHANGED <<src, inErr, opts, line, rawLine, lineData, lastLogrus, lastJSON, lastJournalJSON,
                 jsonEntry, journalJSONEntry, out, ret, input>>

\* dst.Write(logrusEntry.Prettify(opts.SkipUnchanged && lastLogrus))
\* lastLogrus = true
WriteLogrus ==
  /\ pc = "logrusPrettify"
  /\ \E order \in Orders(DOMAIN logrusEntry.Fields) :
       LET su == opts.SkipUnchanged /\ lastLogrus
           r  == GenericPrettify(logrusEntry, opts, su, order)
       IN  /\ logrusEntry' = r.h
           /\ calls' = Append(calls, Call(line, "logrus", "Prettify", su))
           /\ out' = Append(out, WriteRendered(line, "logrus", r.bytes))
  /\ lastLogrus' = TRUE
  /\ pc' = "eol"
  /\ UNCHANGED <<src, inErr, opts, line, rawLine, lineData, lastJSON, lastJournalJSON,
                 jsonEntry, journalJSONEntry, ret, input>>

\* CaseDefault with the write of the line left out.
CaseDefaultNoWrite ==
  /\ pc = "default"
  /\ lastLogrus' = FALSE
  /\ lastJSON' = FALSE
  /\ lastJournalJSON' = FALSE
  /\ pc' = "eol"
  /\ UNCHANGED <<src, inErr, opts, line, rawLine, lineData, logrusEntry, jsonEntry, journalJSONEntry,
                 out, ret, input, calls>>

\* default: the three flags are cleared and lineData is written.
CaseDefault ==
  /\ pc = "default"
  /\ lastLogrus' = FALSE
  /\ lastJSON' = FALSE
  /\ lastJournalJSON' = FALSE
  /\ out' = Append(out, WriteLine(line, lineData))
  /\ pc' = "eol"
  /\ UNCHANGED <<src, inErr, opts, line, rawLine, lineData, logrusEntry, jsonEntry, journalJSONEntry,
                 ret, input, calls>>

\* dst.Write(eol[:])
WriteNewline ==
  /\ pc = "eol"
  /\ out' = Append(out, WriteEol(line))
  /\ pc' = "scan"
  /\ UNCHANGED <<src, inErr, opts, line, rawLine, lineData, lastLogrus, lastJSON, lastJournalJSON,
                 logrusEntry, jsonEntry, journalJSONEntry, ret, input, calls>>

Next ==
  \/ ScanLine
  \/ ScanEnd
  \/ ScanError
  \/ CaseJournalJSON
  \/ WriteJournalJSON
  \/ CaseJSON
  \/ WriteJSON
  \/ CaseLogrus
  \/ WriteLogrus
  \/ CaseDefault
  \/ WriteNewline

Spec == Init /\ [][Next]_vars

\* One set of options, with unchanged fields skipped and colours on.
FlowOptions ==
  [SkipUnchanged : {TRUE}, LightBg : {FALSE}, Truncates : {TRUE}, TruncateLength : {15},
   Keep : {{}}, Skip : {{}}, SortLongest : {TRUE},
   KeyColor : {FgGreen}, ValColor : {FgHiWhite}, NoColor : {FALSE}]

\* Scanner on the streams of Spec under these options.
InitFlow == Start(FlowOptions, Lines)

SpecFlow == InitFlow /\ [][Next]_vars

\* Values of a numeric field: 3, 3.0000005, 3.000002, 1.000001 (a float64
\* below it), 3.000001 (a float64 above it), 1.5, 999999999, 1e9, -3,
\* -0.0000005, -3.5 and -2e9.
NumberValues ==
  { JNumber(3, 0), JNumber(3, 5), JNumber(3, 20), JNumber(1, 10), JNumber(3, 10),
    JNumber(1, 5000000),
    JNumber(999999999, 0), JNumber(1000000000, 0),
    JNumber(-3, 0), JNumber(-1, 9999995), JNumber(-4, 5000000), JNumber(-2000000000, 0) }

\* Journal entries whose field B has each of these values.
NumberLines == {ObjectLine(FALSE, MapMerge(JournalBase, FieldsB(v))) : v \in NumberValues}

\* Scanner on streams of journal entries with a numeric field.
InitNumbers == Start(PlainOptions, NumberLines \cup OtherLines)

SpecNumbers == InitNumbers /\ [][Next]_vars

\* A timestamp value v; timestamp strings that are decimal 64-bit integers
\* come with the integer m they spell, as an int64.
DecimalTimestamp(str, neg, mag) == [v |-> JString(str), valid |-> TRUE, m |-> Int64(neg, mag)]

OtherTimestamp(v) == [v |-> v, valid |-> FALSE, m |-> Int64(FALSE, <<"0">>)]

\* A timestamp of the size the journal writes (November 2023).
JournalTimestamp == <<"1", "7", "0", "0", "0", "0", "0", "0", "0", "0", "1", "2", "3", "4", "5", "6">>

TimestampCases ==
  { DecimalTimestamp(<<"0">>, FALSE, <<"0">>),
    DecimalTimestamp(<<"1", "5", "0", "0", "0", "0", "0">>, FALSE, <<"1", "5", "0", "0", "0", "0", "0">>),
    DecimalTimestamp(Zeros(19) \o <<"1">>, FALSE, <<"1">>),
    DecimalTimestamp(<<"-">> \o Zeros(20), FALSE, <<"0">>),
    DecimalTimestamp(<<"+", "5">>, FALSE, <<"5">>),
    DecimalTimestamp(<<"-", "1">>, TRUE, <<"1">>),
    DecimalTimestamp(JournalTimestamp, FALSE, JournalTimestamp),
    DecimalTimestamp(MaxInt64Digits, FALSE, MaxInt64Digits),
    DecimalTimestamp(<<"-">> \o MinInt64Digits, TRUE, MinInt64Digits),
    OtherTimestamp(JNumber(5, 0)),
    OtherTimestamp(JString(<< >>)),
    OtherTimestamp(JString(<<"1", "2", "x">>)),
    OtherTimestamp(JString(<<"1", ".", "5">>)),
    OtherTimestamp(JString(MinInt64Digits)),
    OtherTimestamp(JString(<<"1">> \o Zeros(19))) }

\* Journal entries with each of these timestamps.
TimeLines ==
  {ObjectLine(FALSE, MapMerge(JournalBase, [k \in {TimestampKey} |-> c.v])) : c \in TimestampCases}

\* Scanner on streams of journal entries of every timestamp.
InitTimes == Start(PlainOptions, TimeLines \cup OtherLines)

SpecTimes == InitTimes /\ [][Next]_vars

KeyB1 == <<"B", "1">>

KeyC == <<"C">>

\* Options with and without SortLongest, with and without colours,
\* unchanged fields skipped.
OrderOptions ==
  [SkipUnchanged : {TRUE}, LightBg : {FALSE}, Truncates : {TRUE}, TruncateLength : {15},
   Keep : {{}}, Skip : {{}}, SortLongest : BOOLEAN,
   KeyColor : {FgGreen}, ValColor : {FgHiWhite}, NoColor : BOOLEAN]

\* {"B": b, "B1": b1}
FieldsBB1(b, b1) == [k \in {KeyB, KeyB1} |-> IF k = KeyB THEN b ELSE b1]

\* Journal entries with fields whose order by key (B, B1, C), by rendered
\* pair without colours (B1="x", B="yy", C=3; with colours the escape
\* character after the key puts B first) and by length (C=3 first) differ.
OrderLines ==
  { ObjectLine(FALSE, MapMerge(JournalBase,
      MapMerge(FieldsBB1(JString(<<"y", "y">>), ValX), [k \in {KeyC} |-> Val3]))),
    ObjectLine(FALSE, MapMerge(JournalBase, FieldsBB1(JString(<<"y", "y">>), ValX))),
    ObjectLine(FALSE, MapMerge(JournalBase,
      MapMerge(FieldsBB1(Val3, ValX), [k \in {KeyC} |-> Val3]))) }

\* Scanner on streams of journal entries with these fields.
InitOrder == Start(OrderOptions, OrderLines \cup OtherLines)

SpecOrder == InitOrder /\ [][Next]_vars

\* Scanner on streams of journal entries of every priority.
InitLevels == Start(PlainOptions, LevelLines \cup OtherLines)

SpecLevels == InitLevels /\ [][Next]_vars

-----------------------------------------------------------------------------
\* Vocabulary of the properties.

\* The content write of line n has been made.
ContentWritten(n) == n \in 1..line /\ (n < line \/ pc \in {"eol", "scan", "done"})

\* Line n is looked at: its content write has been made and it is the line
\* being handled or Scanner has returned.  (The writes and calls of earlier
\* lines do not change any more; every run can end after any line.)
Rendering(n) ==
  /\ ContentWritten(n)
  /\ n = line \/ pc = "done"
  /\ out[2 * n - 1].kind = "rendered"

\* The content write of line n, once made (writes come in pairs: content, newline).
Content(n) == out[2 * n - 1]

\* Field k appears, as k=..., in the rendered bytes.
Shown(bytes, k) ==
  \E i \in 1..Len(bytes.kvs) :
    HasPrefix(bytes.kvs[i], Sprint(opts.NoColor, opts.KeyColor, k) \o <<"=">>)

\* The name k is matched by the Keep set: by its exact or its lowercase form.
InKeep(k) == k \in opts.Keep \/ ToLower(k) \in opts.Keep

\* The name k is matched by the Skip set.
InSkip(k) == k \in opts.Skip \/ ToLower(k) \in opts.Skip

\* The stringified fields handler by decodes from the input line l.
DecodedFields(by, l) ==
  CASE by = "journalJSON" -> UnmarshalJournalJSON(NewHandler, TrimPrefix(l)).h.Fields
    [] by = "JSON"        -> JSONTryHandle(NewHandler, TrimPrefix(l)).h.Fields
    [] by = "logrus"      -> LogfmtParse(NewHandler, TrimPrefix(l)).h.Fields
    [] OTHER              -> EmptyMap

\* The field names of the model's lines.
FieldNames == {KeyB, KeyP, TimestampKey}

\* The calls made while line n was handled, without argument or result.
CallsOf(n) ==
  LET cs == SelectSeq(calls, LAMBDA c : c.n = n)
  IN  [i \in 1..Len(cs) |-> <<cs[i].h, cs[i].op>>]

-----------------------------------------------------------------------------
\* C1: a line that no decoder accepts is written exactly as it was read,
\* "@cee: " prefix included, and is followed by one newline.
C1_PassThroughVerbatim ==
  \A n \in 1..line :
    (ContentWritten(n) /\ Content(n).kind = "line") =>
      /\ Content(n).line = input[n]
      /\ (2 * n <= Len(out) => out[2 * n].kind = "eol")

\* C2: the writes are, line by line and in input order, one content write and
\* one newline write; the next line is read only after both.
C2_OneRecordPerLine ==
  /\ Len(input) = line
  /\ pc \in {"scan", "done"} => Len(out) = 2 * line
  /\ pc = "eol" => Len(out) = 2 * line - 1
  /\ pc \notin {"scan", "done", "eol"} => Len(out) = 2 * (line - 1)
  /\ \A i \in 1..Len(out) :
       /\ out[i].n = (i + 1) \div 2
       /\ (i % 2 = 1) => out[i].kind \in {"rendered", "line"}
       /\ (i % 2 = 0) => out[i].kind = "eol"
  /\ \A n \in 1..line :
       (ContentWritten(n) /\ Content(n).kind = "line") => Content(n).line = TrimPrefix(input[n])

\* Three lines were read and written, one rendered and one passed through.
C2_Witness ==
  /\ pc = "done"
  /\ line = 3
  /\ Len(out) = 6
  /\ \E i, j \in 1..Len(out) : out[i].kind = "rendered" /\ out[j].kind = "line"

\* C3: with SkipUnchanged, of two consecutive lines rendered by the same
\* handler the second shows no field (visible by name, not matched by Keep)
\* whose value is the one it had in the first, and shows every field (visible
\* by name) whose value is another or that the first did not have.
C3_UnchangedHiddenChangedShown ==
  opts.SkipUnchanged =>
    \A n \in 2..line :
      (/\ Rendering(n)
       /\ Content(n - 1).kind = "rendered"
       /\ Content(n).by = Content(n - 1).by) =>
        LET F1 == DecodedFields(Content(n).by, input[n - 1])
            F2 == DecodedFields(Content(n).by, input[n])
        IN  \A k \in DOMAIN F2 :
              shouldShowKey(opts, k) =>
                /\ (k \in DOMAIN F1 /\ F1[k] = F2[k] /\ ~InKeep(k)) => ~Shown(Content(n).bytes, k)
                /\ (k \notin DOMAIN F1 \/ F1[k] # F2[k]) => Shown(Content(n).bytes, k)

\* Three lines of one handler: B keeps its value from the first to the
\* second, where it is hidden, and changes in the third, where it is shown.
C3_Witness ==
  /\ opts.SkipUnchanged
  /\ ~InKeep(KeyB)
  /\ pc = "done"
  /\ line = 3
  /\ \A n \in 1..3 : Content(n).kind = "rendered" /\ Content(n).by = Content(1).by
  /\ LET F1 == DecodedFields(Content(1).by, input[1])
         F2 == DecodedFields(Content(1).by, input[2])
         F3 == DecodedFields(Content(1).by, input[3])
     IN  /\ KeyB \in DOMAIN F1 /\ KeyB \in DOMAIN F2 /\ KeyB \in DOMAIN F3
         /\ F1[KeyB] = F2[KeyB]
         /\ F2[KeyB] # F3[KeyB]
  /\ Shown(Content(1).bytes, KeyB)
  /\ ~Shown(Content(2).bytes, KeyB)
  /\ Shown(Content(3).bytes, KeyB)

\* C4: when a handler has rendered a line the flags of the two others are
\* false, and Prettify is called with skipUnchanged = true only if
\* SkipUnchanged is set and the line before was rendered by the same handler.
C4_SkipUnchangedOnlyAfterSameHandler ==
  /\ (pc = "eol" /\ Content(line).kind = "rendered") =>
       /\ Content(line).by # "journalJSON" => ~lastJournalJSON
       /\ Content(line).by # "JSON" => ~lastJSON
       /\ Content(line).by # "logrus" => ~lastLogrus
  /\ \A i \in 1..Len(calls) :
       (calls[i].op = "Prettify" /\ calls[i].v) =>
         /\ opts.SkipUnchanged
         /\ calls[i].n > 1
         /\ Content(calls[i].n - 1).kind = "rendered"
         /\ Content(calls[i].n - 1).by = calls[i].h

\* The first handler, in the order Journal-JSON, generic JSON, Logfmt, whose
\* decoder accepts d; "none" if none does.
ExpectedOwner(d) ==
  IF TryHandle(NewHandler, d).ok THEN "journalJSON"
  ELSE IF JSONTryHandle(NewHandler, d).ok THEN "JSON"
  ELSE IF CanHandle(d) /\ LogfmtParse(NewHandler, d).ok THEN "logrus"
  ELSE "none"

\* The calls Scanner's switch makes for the line d owned by o: the handlers
\* in that order up to o, and the Prettify of o.
ExpectedCalls(d, o) ==
  LET j  == <<"journalJSON", "TryHandle">>
      g  == <<"JSON", "TryHandle">>
      c  == <<"logrus", "CanHandle">>
      p  == <<"logrus", "Parse">>
  IN  CASE o = "journalJSON" -> <<j, <<"journalJSON", "Prettify">>>>
        [] o = "JSON"        -> <<j, g, <<"JSON", "Prettify">>>>
        [] o = "logrus"      -> <<j, g, c, p, <<"logrus", "Prettify">>>>
        [] OTHER             -> IF CanHandle(d) THEN <<j, g, c, p>> ELSE <<j, g, c>>

\* C5: for every line the handlers are tried in the order Journal-JSON,
\* generic JSON, Logfmt; the first that accepts the line is the only one
\* whose Prettify is called, nothing is tried after it, and a line no one
\* accepts is passed through.  (Looked at for the line being handled, up to
\* its newline, and for every line when Scanner has returned.)
C5_FirstAcceptingHandlerOwnsLine ==
  \A n \in 1..line :
    ((n = line /\ pc # "scan") \/ pc = "done") =>
      LET d  == TrimPrefix(input[n])
          o  == ExpectedOwner(d)
          ec == ExpectedCalls(d, o)
          cs == CallsOf(n)
      IN  IF ContentWritten(n)
          THEN /\ cs = ec
               /\ Content(n).by = o
               /\ Content(n).kind = IF o = "none" THEN "line" ELSE "rendered"
          ELSE /\ Len(cs) <= Len(ec)
               /\ cs = SubSeq(ec, 1, Len(cs))

\* A line that both the Journal-JSON and the generic JSON decoder accept has
\* been rendered, by the Journal-JSON handler.
C5_Witness ==
  \E n \in 1..line :
    /\ ContentWritten(n)
    /\ TryHandle(NewHandler, TrimPrefix(input[n])).ok
    /\ JSONTryHandle(NewHandler, TrimPrefix(input[n])).ok
    /\ Content(n).by = "journalJSON"

\* C6: a TryHandle of the Journal-JSON handler that returns false leaves
\* the handler's last snapshot as it was.
C6_FailedTryHandleKeepsLast ==
  [][(pc = "journalJSON" /\ pc' = "JSON") => journalJSONEntry'.last = journalJSONEntry.last]_vars

\* C7: with a non-empty Keep set, no rendered line shows a field that Keep
\* does not match (by its exact or its lowercase name).
C7_KeepIsAllowList ==
  \A n \in 1..line :
    (ContentWritten(n) /\ Content(n).kind = "rendered") =>
      \A k \in FieldNames :
        (opts.Keep # {} /\ ~InKeep(k)) => ~Shown(Content(n).bytes, k)

\* C8: no rendered line shows a field that a non-empty Skip set matches (by
\* its exact or its lowercase name), whatever the Keep set is.
C8_SkipAlwaysWins ==
  \A n \in 1..line :
    (ContentWritten(n) /\ Content(n).kind = "rendered") =>
      \A k \in FieldNames :
        (opts.Skip # {} /\ InSkip(k)) => ~Shown(Content(n).bytes, k)

\* C9: no rendered line shows a field whose name begins with an underscore,
\* unless a non-empty Keep set matches the name (by its exact or its
\* lowercase form).
C9_UnderscoreHiddenUnlessKept ==
  \A n \in 1..line :
    Rendering(n) =>
      \A k \in FieldNames :
        (HasPrefix(k, <<"_">>) /\ ~(opts.Keep # {} /\ InKeep(k))) => ~Shown(Content(n).bytes, k)

\* A line with the field _P has been rendered, under a non-empty Keep set
\* that does not match _P and an empty Skip set, and does not show it.
C9_Witness ==
  /\ opts.Keep # {}
  /\ ~InKeep(KeyP)
  /\ opts.Skip = {}
  /\ \E n \in 1..line :
       /\ ContentWritten(n)
       /\ Content(n).kind = "rendered"
       /\ KeyP \in DOMAIN DecodedFields(Content(n).by, input[n])
       /\ ~Shown(Content(n).bytes, KeyP)

\* C10: a line on which logfmt.Parse reports failure is written as it is
\* (pass-through) with the three flags cleared, and the Logfmt handler's
\* Prettify is not called for it.
C10_LogfmtFailurePassesThrough ==
  \A i \in 1..Len(calls) :
    (calls[i].op = "Parse" /\ ~calls[i].v) =>
      LET n == calls[i].n
      IN  /\ \A j \in 1..Len(calls) : ~(calls[j].n = n /\ calls[j].op = "Prettify")
          /\ pc # "logrusPrettify" \/ line # n
          /\ ContentWritten(n) =>
               /\ Content(n).kind = "line"
               /\ Content(n).line = TrimPrefix(input[n])
          /\ (pc = "eol" /\ line = n) => (~lastLogrus /\ ~lastJSON /\ ~lastJournalJSON)

\* logfmt.Parse has failed on the second line, after a line the Logfmt
\* handler rendered, and the line has been passed through.
C10_Witness ==
  /\ pc = "eol"
  /\ line = 2
  /\ Content(1).by = "logrus"
  /\ Content(2).kind = "line"
  /\ \E i \in 1..Len(calls) : calls[i].n = 2 /\ calls[i].op = "Parse" /\ ~calls[i].v

\* C11: Scanner returns only when a read has reported the end of the stream
\* or an error; it returns an error exactly when in.Err() holds one other
\* than the end of the stream, and then that error, with nothing read after
\* it; at the return every line read has its content and its newline
\* written, and while a line is handled (decoders failing or not) Scanner
\* has not returned.
C11_ErrorOnlyOnReadFailure ==
  /\ (ret # "running") <=> (pc = "done")
  /\ inErr # "nil" => pc = "done"
  /\ pc = "done" =>
       /\ (ret # "nil") <=> (inErr \notin {"nil", "io.EOF"})
       /\ ret # "nil" => ret = inErr
       /\ Len(input) = line
       /\ Len(out) = 2 * Len(input)
  /\ \A i \in 1..Len(calls) :
       (calls[i].op \in {"TryHandle", "CanHandle", "Parse"} /\ ~calls[i].v /\ ret # "running") =>
         /\ 2 * calls[i].n <= Len(out)
         /\ out[2 * calls[i].n - 1].kind \in {"rendered", "line"}
         /\ out[2 * calls[i].n].kind = "eol"

\* A read error after two lines, one of which every decoder has refused:
\* Scanner has returned the error and both lines are written.
C11_Witness ==
  /\ pc = "done"
  /\ ret = "err"
  /\ line = 2
  /\ Len(out) = 4
  /\ \E i \in 1..Len(calls) : calls[i].op = "Parse" /\ ~calls[i].v

\* The severity code the mapping gives to the PRIORITY of the entry o: by
\* the priority if it is a string, UNKN if it is absent or no string.
SeverityCode(o) ==
  IF PriorityKey \notin DOMAIN o \/ o[PriorityKey].t # "string" THEN <<"U", "N", "K", "N">>
  ELSE IF o[PriorityKey].s = <<"7">> THEN <<"D", "E", "B", "U">>
  ELSE IF o[PriorityKey].s \in {<<"5">>, <<"6">>} THEN <<"I", "N", "F", "O">>
  ELSE IF o[PriorityKey].s = <<"4">> THEN <<"W", "A", "R", "N">>
  ELSE IF o[PriorityKey].s = <<"3">> THEN <<"E", "R", "R", "O">>
  ELSE IF o[PriorityKey].s \in {<<"0">>, <<"1">>, <<"2">>} THEN <<"F", "A", "T", "A">>
  ELSE <<"U", "N", "K", "N">>

\* The line l is a JSON object whose PRIORITY is p.
HasPriority(l, p) == l.json /\ PriorityKey \in DOMAIN l.obj /\ l.obj[PriorityKey] = p

\* C12: every line rendered by the Journal-JSON handler shows the severity
\* code of its PRIORITY: "7" DEBU, "5" and "6" INFO, "4" WARN, "3" ERRO, "0",
\* "1", "2" FATA, and UNKN for every other string and for an absent or
\* non-string PRIORITY.
C12_SeverityMappingTotal ==
  \A n \in 1..line :
    (Rendering(n) /\ Content(n).by = "journalJSON") =>
      Content(n).bytes.level = SeverityCode(input[n].obj)

\* Three entries have been rendered: one of priority "5" as INFO, one of
\* priority "0" as FATA and one whose PRIORITY is a number as UNKN.
C12_Witness ==
  /\ pc = "done"
  /\ line = 3
  /\ \A n \in 1..3 : Content(n).by = "journalJSON"
  /\ HasPriority(input[1], JString(<<"5">>)) /\ Content(1).bytes.level = <<"I", "N", "F", "O">>
  /\ HasPriority(input[2], JString(<<"0">>)) /\ Content(2).bytes.level = <<"F", "A", "T", "A">>
  /\ HasPriority(input[3], JNumber(6, 0)) /\ Content(3).bytes.level = <<"U", "N", "K", "N">>

\* Field k appears with the text v, as k=v, in the rendered bytes.
ShownAs(bytes, k, v) ==
  \E i \in 1..Len(bytes.kvs) :
    bytes.kvs[i] = Sprint(opts.NoColor, opts.KeyColor, k) \o <<"=">> \o Sprint(opts.NoColor, opts.ValColor, v)

\* The absolute value of w + f / FracUnit is below 1e9.
MagnitudeBelow1e9(w, f) ==
  IF w >= 0 THEN w < 1000 * 1000 * 1000
  ELSE -w < 1000 * 1000 * 1000 \/ (-w = 1000 * 1000 * 1000 /\ f > 0)

\* C13: a numeric field of a line rendered by the Journal-JSON handler is
\* shown as an integer (digits only, after the sign) exactly when its
\* fractional part is below 1e-6 (as float64 values) and its absolute value
\* below 1e9, and in the general form %g otherwise.
C13_IntegerFormByMagnitude ==
  \A n \in 1..line :
    (/\ Rendering(n)
     /\ Content(n).by = "journalJSON"
     /\ KeyB \in DOMAIN input[n].obj
     /\ input[n].obj[KeyB].t = "number") =>
      LET w == input[n].obj[KeyB].whole
          f == input[n].obj[KeyB].frac
      IN  IF FractionBelowMicro(w, f) /\ MagnitudeBelow1e9(w, f)
          THEN ShownAs(Content(n).bytes, KeyB, Itoa(FloatToInt(w, f)))
          ELSE ShownAs(Content(n).bytes, KeyB, FormatG(w, f))

\* The line being handled is the line before it, fed again, and that one
\* was passed through.
SecondPassThrough ==
  /\ line >= 2
  /\ pc \in {"journalJSON", "JSON", "logrus", "default"}
  /\ input[line] = input[line - 1]
  /\ Content(line - 1).kind = "line"

\* C14: when a line that was passed through is fed again right after, no
\* step of handling it changes the flags or the handlers (so that every
\* later line is handled from the state the first feed left), it is passed
\* through again, and what is written for it is what was written for the
\* first.
C14_PassThroughIdempotent ==
  [][SecondPassThrough =>
       /\ UNCHANGED <<lastLogrus, lastJSON, lastJournalJSON, logrusEntry, jsonEntry, journalJSONEntry>>
       /\ pc' \in {"JSON", "logrus", "default", "eol"}
       /\ pc = "default" =>
            /\ Len(out') = Len(out) + 1
            /\ out'[Len(out')].kind = "line"
            /\ out'[Len(out')].line = Content(line - 1).line]_vars

\* After a journal entry, a line with the timestamp key that is no JSON has
\* been fed twice and passed through twice; the first feed has cleared the
\* journal handler's snapshot and its flag.
C14_Witness ==
  /\ pc = "scan"
  /\ line = 3
  /\ Content(1).by = "journalJSON"
  /\ input[2] = input[3]
  /\ ContainsTimestampKey(input[2])
  /\ Content(2).kind = "line"
  /\ Content(3).kind = "line"
  /\ Content(3).line = Content(2).line
  /\ journalJSONEntry.last = EmptyMap
  /\ ~lastJournalJSON

\* C15: the message of a line rendered by the Journal-JSON handler, and the
\* placeholder of a missing message, are printed in the style the options
\* give to that role: the light-background one if LightBg, the
\* dark-background one otherwise.
C15_MessageStyleFromOptions ==
  \A n \in 1..line :
    (Rendering(n) /\ Content(n).by = "journalJSON") =>
      Content(n).bytes.msgStyle =
        IF Content(n).bytes.msg = NoMsg
        THEN (IF opts.LightBg THEN "MsgAbsentLightBgColor" ELSE "MsgAbsentDarkBgColor")
        ELSE (IF opts.LightBg THEN "MsgLightBgColor" ELSE "MsgDarkBgColor")

\* The handler h holds no entry.
NoEntry(h) ==
  h.Level = << >> /\ h.Time = ZeroTime /\ h.Message = << >> /\ h.Fields = EmptyMap

\* The number of calls of op on the Journal-JSON handler for line n that
\* had the argument or result v.
JournalCalls(n, op, v) ==
  Cardinality({i \in 1..Len(calls) :
                 calls[i].n = n /\ calls[i].h = "journalJSON" /\ calls[i].op = op /\ calls[i].v = v})

\* C16: the Journal-JSON handler holds no entry when a line is read, when
\* Scanner returns and after a TryHandle that returned false; the entry it
\* holds after a TryHandle that returned true is that of the line alone
\* (nothing of earlier lines in it) and is rendered by one Prettify call,
\* the only one for the line, before the next line is read.
C16_NoLiveEntryBetweenLines ==
  /\ pc \in {"scan", "done", "JSON", "logrus", "default", "JSONPrettify", "logrusPrettify"} =>
       NoEntry(journalJSONEntry)
  /\ pc = "journalJSONPrettify" =>
       journalJSONEntry = [UnmarshalJournalJSON(NewHandler, lineData).h
                             EXCEPT !.last = journalJSONEntry.last]
  /\ (pc = "eol" /\ Content(line).by = "journalJSON") =>
       /\ NoEntry(journalJSONEntry)
       /\ Content(line).bytes.time = UnmarshalJournalJSON(NewHandler, lineData).h.Time
       /\ Content(line).bytes.level = levelCode(UnmarshalJournalJSON(NewHandler, lineData).h.Level).text
  /\ (line >= 1 /\ pc \in {"eol", "scan", "done"}) =>
       /\ JournalCalls(line, "TryHandle", TRUE) + JournalCalls(line, "TryHandle", FALSE) = 1
       /\ JournalCalls(line, "Prettify", TRUE) + JournalCalls(line, "Prettify", FALSE)
            = JournalCalls(line, "TryHandle", TRUE)

\* A journal entry was rendered, then a line with a timestamp that is no
\* string was refused by TryHandle, then a journal entry was rendered again;
\* the next line is about to be read.
C16_Witness ==
  /\ pc = "scan"
  /\ line = 3
  /\ Content(1).by = "journalJSON"
  /\ ContainsTimestampKey(input[2]) /\ Content(2).by # "journalJSON"
  /\ Content(3).by = "journalJSON"
  /\ NoEntry(journalJSONEntry)
  /\ journalJSONEntry.last # EmptyMap

\* The handlers that were called for line n, in the order of the calls.
HandlersTried(n) ==
  LET cs == SelectSeq(calls, LAMBDA c : c.n = n /\ c.op \in {"TryHandle", "CanHandle"})
  IN  [i \in 1..Len(cs) |-> cs[i].h]

\* C17: a line the Journal-JSON handler renders is a JSON object with the
\* key "_SOURCE_REALTIME_TIMESTAMP" among its own keys; an object without
\* it (where the name is the key of a nested object only) is refused by the
\* Journal-JSON handler and offered to the generic JSON handler.
C17_JournalOwnsOnlyTopLevelKey ==
  \A n \in 1..line :
    Rendering(n) =>
      /\ Content(n).by = "journalJSON" =>
           input[n].json /\ TimestampKey \in DOMAIN input[n].obj
      /\ (input[n].json /\ ~input[n].cee /\ TimestampKey \notin DOMAIN input[n].obj) =>
           /\ Content(n).by # "journalJSON"
           /\ Len(HandlersTried(n)) >= 2
           /\ HandlersTried(n)[2] = "JSON"

\* The case of TimestampCases the timestamp of the entry o is.
TimestampCase(o) == CHOOSE c \in TimestampCases : c.v = o[TimestampKey]

\* The microseconds from the epoch to the time t, as an int64.
MicrosAfterEpoch(t) ==
  Int64Add(IF t.sec.mag = <<"0">> THEN t.sec ELSE Int64(t.sec.neg, t.sec.mag \o Zeros(6)),
           Int64Of(t.nsec \div 1000))

\* C18: a line whose timestamp is a string spelling the decimal 64-bit
\* integer m is decoded by the Journal-JSON handler to the time m
\* microseconds after the Unix epoch, a whole number of microseconds with
\* nanoseconds in [0, 1e9); for m >= 0 (checked on the m below 1e9) that is
\* seconds m div 1e6 and nanoseconds (m mod 1e6) * 1000.  A line whose
\* timestamp is no string, or no decimal 64-bit integer, is refused by the
\* Journal-JSON handler and offered to the generic JSON handler.
C18_TimestampMicroseconds ==
  \A n \in 1..line :
    (/\ (n = line /\ pc \in {"eol", "scan"}) \/ pc = "done"
     /\ input[n].json
     /\ TimestampKey \in DOMAIN input[n].obj) =>
      IF TimestampCase(input[n].obj).valid
      THEN /\ Content(n).by = "journalJSON"
           /\ ~Content(n).bytes.time.zero
           /\ Content(n).bytes.time.nsec \in 0..(1000 * 1000 * 1000 - 1)
           /\ Content(n).bytes.time.nsec % 1000 = 0
           /\ MicrosAfterEpoch(Content(n).bytes.time) = TimestampCase(input[n].obj).m
           /\ (~TimestampCase(input[n].obj).m.neg /\ Len(TimestampCase(input[n].obj).m.mag) <= 9) =>
                /\ Content(n).bytes.time.sec =
                     Int64Of(DigitsValue(TimestampCase(input[n].obj).m.mag) \div (1000 * 1000))
                /\ Content(n).bytes.time.nsec =
                     (DigitsValue(TimestampCase(input[n].obj).m.mag) % (1000 * 1000)) * 1000
      ELSE /\ Content(n).by # "journalJSON"
           /\ Len(HandlersTried(n)) >= 2
           /\ HandlersTried(n)[1] = "journalJSON"
           /\ HandlersTried(n)[2] = "JSON"

\* Entries with the timestamps "1500000" and "-1" have been rendered with the
\* times 1.5 s after and 1 microsecond before the epoch, and one with the
\* timestamp "12x" has gone to the generic JSON handler.
C18_Witness ==
  /\ pc = "done"
  /\ line = 3
  /\ \A n \in 1..3 : input[n].json /\ TimestampKey \in DOMAIN input[n].obj
  /\ TimestampCase(input[1].obj).m = Int64Of(1500000)
  /\ Content(1).bytes.time = [zero |-> FALSE, sec |-> Int64Of(1), nsec |-> 500 * 1000 * 1000]
  /\ TimestampCase(input[2].obj).m = Int64Of(-1)
  /\ Content(2).bytes.time = [zero |-> FALSE, sec |-> Int64Of(-1), nsec |-> 999999 * 1000]
  /\ input[3].obj[TimestampKey] = JString(<<"1", "2", "x">>)
  /\ Content(3).by = "JSON"

\* Line n, rendered by the Journal-JSON handler, is the first of a run of
\* consecutive lines rendered by it.
RunStart(n) == n = 1 \/ Content(n - 1).by # "journalJSON"

\* C19: when the Journal-JSON handler has rendered a line its last snapshot
\* is the whole Fields map of that line, hidden fields included.  With
\* SkipUnchanged, in a run of consecutive lines it renders, the first line
\* shows every field (visible by name); a later line of the run hides a
\* field (not matched by Keep) that has the value it had in the line before
\* and shows a field the line before did not have.
C19_SnapshotIsWholeEntry ==
  /\ (pc = "eol" /\ Content(line).by = "journalJSON") =>
       journalJSONEntry.last = DecodedFields("journalJSON", input[line])
  /\ opts.SkipUnchanged =>
       \A n \in 1..line :
         (Rendering(n) /\ Content(n).by = "journalJSON") =>
           \A k \in DOMAIN DecodedFields("journalJSON", input[n]) :
             (shouldShowKey(opts, k) /\ ~InKeep(k)) =>
               IF RunStart(n) THEN Shown(Content(n).bytes, k)
               ELSE IF k \notin DOMAIN DecodedFields("journalJSON", input[n - 1])
               THEN Shown(Content(n).bytes, k)
               ELSE DecodedFields("journalJSON", input[n - 1])[k]
                      = DecodedFields("journalJSON", input[n])[k]
                        => ~Shown(Content(n).bytes, k)

\* The pairs kvs are in increasing order: by length first if byLength, and
\* lexicographic (among those of one length if byLength).
InOrder(kvs, byLength) ==
  \A i, j \in 1..Len(kvs) :
    i < j =>
      IF byLength /\ Len(kvs[i]) # Len(kvs[j]) THEN Len(kvs[i]) < Len(kvs[j])
      ELSE StrLess(kvs[i], kvs[j])

\* C20: when the Journal-JSON handler renders a line, the key=value pairs
\* written are those joinKVs returns for every order in which the Fields map
\* can be iterated: one pair for each visible field, in lexicographic order
\* of the pairs as rendered (with their colours, if any), or by length and
\* then lexicographic with SortLongest.
C20_KVsDeterministic ==
  [][pc = "journalJSONPrettify" =>
       /\ \A order \in Orders(DOMAIN journalJSONEntry.Fields) :
            joinKVs(journalJSONEntry, opts, opts.SkipUnchanged /\ lastJournalJSON, <<"=">>, order)
              = out'[Len(out')].bytes.kvs
       /\ Len(out'[Len(out')].bytes.kvs)
            = Cardinality(visibleKeys(journalJSONEntry, opts, opts.SkipUnchanged /\ lastJournalJSON))
       /\ \A k \in visibleKeys(journalJSONEntry, opts, opts.SkipUnchanged /\ lastJournalJSON) :
            ShownAs(out'[Len(out')].bytes, k, truncate(opts, journalJSONEntry.Fields[k]))
       /\ InOrder(out'[Len(out')].bytes.kvs, opts.SortLongest)]_vars

\* Without SortLongest and without colours, an entry with the fields B, B1
\* and C has been rendered as B1="x", B="yy", C=3: the order of the pairs,
\* not of the keys.
C20_Witness ==
  /\ ~opts.SortLongest
  /\ opts.NoColor
  /\ pc = "eol"
  /\ Content(line).by = "journalJSON"
  /\ Content(line).bytes.kvs =
       << KeyB1 \o <<"=">> \o FormatQ(<<"x">>),
          KeyB \o <<"=">> \o FormatQ(<<"y", "y">>),
          KeyC \o <<"=", "3">> >>

=============================================================================
